---- MODULE Spec2Model ----
(***************************************************************************)
(* A model of src/utils.py: the signed spectral feature builder            *)
(* (create_spectral_features) and the inverse hyperbolic primitives        *)
(* (Artanh, Arsinh, Arcosh) with their forward/backward pairs.             *)
(*                                                                         *)
(* create_spectral_features is one straight-line function; the model       *)
(* steps through it statement group by statement group so that the         *)
(* intermediate coordinate lists are visible as states.                    *)
(***************************************************************************)
EXTENDS Integers, Sequences, FiniteSets

(* ---------------------------------------------------------------------- *)
(* Bounds of the model                                                     *)
(* ---------------------------------------------------------------------- *)

\* node indices appearing in the edge lists are drawn from 0..MaxNode
MaxNode == 1

\* len(positive_edges) + len(negative_edges) <= MaxEdges
MaxEdges == 2

\* the elements handed to the hyperbolic primitives lie in -MaxX..MaxX grid units
MaxX == 12

(* ---------------------------------------------------------------------- *)
(* State of one call of create_spectral_features                           *)
(* ---------------------------------------------------------------------- *)

VARIABLES
    pos_edges,              \* argument pos_edge_index: sequence of <<src, dst>>
    neg_edges,              \* argument neg_edge_index: sequence of <<src, dst>>
    num_nodes,              \* argument num_nodes: <<>> for None, <<n>> when supplied
    reduction_dimensions,   \* args.reduction_dimensions
    reduction_iterations,   \* args.reduction_iterations
    pc,                     \* position in create_spectral_features
    N,                      \* local N
    edge_index,             \* local edge_index, a sequence of <<row, col>> columns
    val,                    \* local val, one value per column of edge_index
    pre_index,              \* the edge_index handed to coalesce (line 134)
    pre_val,                \* the val handed to coalesce (line 134)
    A,                      \* the coo_matrix of line 139, <<>> before it exists
    x_shape,                \* shape of the returned tensor, <<>> before return
    raised_at,              \* source line an exception left the call from, 0 if none
    raised_kind             \* the kind of that exception, "" if none

fvars == <<pos_edges, neg_edges, num_nodes, reduction_dimensions,
           reduction_iterations, pc, N, edge_index, val, pre_index, pre_val,
           A, x_shape, raised_at, raised_kind>>

(* ---------------------------------------------------------------------- *)
(* State of one forward/backward pair of an inverse hyperbolic primitive,  *)
(* for one element of the tensor                                           *)
(* ---------------------------------------------------------------------- *)

VARIABLES
    h_op,           \* the autograd Function applied: "Artanh", "Arsinh", "Arcosh"
    h_dtype,        \* x.dtype: "float32" or "float64"
    h_x,            \* the element of the argument x, in grid units
    h_pc,           \* "apply", "forwarded" or "backwarded"
    saved,          \* ctx.saved_tensors: <<>> or <<element>>
    h_out,          \* the element forward returned, <<>> before
    grad_output,    \* the element of grad_output handed to backward
    grad_input      \* the element backward returned, <<>> before

hvars == <<h_op, h_dtype, h_x, h_pc, saved, h_out, grad_output, grad_input>>

vars == <<fvars, hvars>>

(* ---------------------------------------------------------------------- *)
(* Helpers                                                                 *)
(* ---------------------------------------------------------------------- *)

RECURSIVE SumSeq(_)
SumSeq(s) == IF s = <<>> THEN 0 ELSE Head(s) + SumSeq(Tail(s))

RECURSIVE SumOver(_, _)
\* sum of v[k] over the positions k of the set ks
SumOver(v, ks) ==
    IF ks = {} THEN 0
    ELSE LET k == CHOOSE k \in ks : TRUE
         IN  v[k] + SumOver(v, ks \ {k})

SetMax(S) == CHOOSE m \in S : \A o \in S : o <= m
SetMin(S) == CHOOSE m \in S : \A o \in S : m <= o

RECURSIVE SortedSeq(_)
\* the elements of a finite set of integers in ascending order
SortedSeq(S) ==
    IF S = {} THEN <<>>
    ELSE LET m == SetMin(S) IN <<m>> \o SortedSeq(S \ {m})

\* all sequences over S of length exactly n
SeqsOfLen(S, n) == [1..n -> S]

(* ---------------------------------------------------------------------- *)
(* create_spectral_features, lines 120-124                                 *)
(* ---------------------------------------------------------------------- *)

\* torch.cat([pos_edge_index, neg_edge_index], dim=1)
CatEdges(pos, neg) == pos \o neg

\* edge_index.max().item()
MaxIndex(ei) == SetMax({ei[k][1] : k \in DOMAIN ei} \cup {ei[k][2] : k \in DOMAIN ei})

InferNNoPlusOne(ei, nn) == IF nn = <<>> THEN MaxIndex(ei) ELSE nn[1]

\* N = edge_index.max().item() + 1 if num_nodes is None else num_nodes
InferN(ei, nn) == IF nn = <<>> THEN MaxIndex(ei) + 1 ELSE nn[1]

(* ---------------------------------------------------------------------- *)
(* lines 126-128: the value annotation                                     *)
(* ---------------------------------------------------------------------- *)

PosValueThree == 2 + 1

\* torch.full((pos_edge_index.size(1), ), 2, ...)
PosValue == 2

NegValueOne == 0 + 1

\* torch.full((neg_edge_index.size(1), ), 0, ...)
NegValue == 0

\* val = torch.cat([pos_val, neg_val], dim=0)
AnnotateValues(pos, neg) ==
    [k \in 1..Len(pos) |-> PosValue] \o [k \in 1..Len(neg) |-> NegValue]

(* ---------------------------------------------------------------------- *)
(* lines 130-132: symmetrization                                           *)
(* ---------------------------------------------------------------------- *)

\* torch.stack([col, row])
SwapRowCol(ei) == [k \in DOMAIN ei |-> <<ei[k][2], ei[k][1]>>]

SymmetrizeNoSwap(ei) == ei \o ei

\* edge_index = torch.cat([edge_index, torch.stack([col, row])], dim=1)
Symmetrize(ei) == ei \o SwapRowCol(ei)

\* val = torch.cat([val, val], dim=0)
DoubleVal(v) == v \o v

(* ---------------------------------------------------------------------- *)
(* line 134: torch_sparse.coalesce(edge_index, val, N, N)                  *)
(*                                                                         *)
(* coalesce orders the columns by the linear key row * n + col and merges  *)
(* the columns that share a key, adding their values.  When every index is *)
(* below n the key determines the coordinate; with an index >= n distinct  *)
(* coordinates can share a key, and which of them names the merged column  *)
(* depends on the (unstable) sort: useLast chooses among them.             *)
(* ---------------------------------------------------------------------- *)

LinKey(e, n) == e[1] * n + e[2]

KeyMembers(ei, n, key) == {k \in DOMAIN ei : LinKey(ei[k], n) = key}

CoalescedKeys(ei, n) == SortedSeq({LinKey(ei[k], n) : k \in DOMAIN ei})

GroupValueLast(v, ks) == v[SetMax(ks)]

\* op="add": the values of one group are summed
GroupValue(v, ks) == SumOver(v, ks)

CoalesceIndex(ei, n, useLast) ==
    LET keys == CoalescedKeys(ei, n)
    IN  [g \in DOMAIN keys |->
            LET ks == KeyMembers(ei, n, keys[g])
            IN  ei[IF useLast THEN SetMax(ks) ELSE SetMin(ks)]]

CoalesceVal(ei, v, n) ==
    LET keys == CoalescedKeys(ei, n)
    IN  [g \in DOMAIN keys |-> GroupValue(v, KeyMembers(ei, n, keys[g]))]

SubtractTwo(v) == [k \in DOMAIN v |-> v[k] - 2]

\* line 135: val = val - 1
SubtractOne(v) == [k \in DOMAIN v |-> v[k] - 1]

\* every index of the list is a valid index of an n x n matrix
InRange(ei, n) == \A k \in DOMAIN ei : ei[k][1] < n /\ ei[k][2] < n

(* ---------------------------------------------------------------------- *)
(* line 139: scipy.sparse.coo_matrix((val, edge_index), shape=(N, N))      *)
(* ---------------------------------------------------------------------- *)

CooMatrix(v, ei, n) == [shape |-> <<n, n>>, index |-> ei, data |-> v]

\* the positions of the matrix that store coordinate (i, j)
StoredAt(M, i, j) == {k \in DOMAIN M.index : M.index[k] = <<i, j>>}

\* the value of the matrix at (i, j): the stored data there, 0 when none
Entry(M, i, j) == SumOver(M.data, StoredAt(M, i, j))

(* ---------------------------------------------------------------------- *)
(* lines 140-145: TruncatedSVD(n_components, n_iter).fit(A), components_.T *)
(*                                                                         *)
(* components_ has shape (n_components, n_features) with n_features the    *)
(* column count of A, so the returned x has shape (N, n_components).       *)
(* A rank outside 1..N is either rejected by the fit or silently cut to    *)
(* the ranks the factorization has, depending on the library release.      *)
(* ---------------------------------------------------------------------- *)

SvdRankValid(k, n) == 1 <= k /\ k <= n

SvdMayRaise(k, n) == ~SvdRankValid(k, n)

\* svd.components_.T
SvdShape(M, k) ==
    <<M.shape[2], IF k < 0 THEN 0 ELSE IF k > M.shape[2] THEN M.shape[2] ELSE k>>

(* ---------------------------------------------------------------------- *)
(* The calls the model explores                                            *)
(* ---------------------------------------------------------------------- *)

Nodes == 0..MaxNode

Edges == Nodes \X Nodes

EdgeLists == UNION {SeqsOfLen(Edges, n) : n \in 0..MaxEdges}

NumNodesChoices == {<<>>} \cup {<<n>> : n \in MaxNode..(MaxNode + 2)}

DimensionChoices == 0..2

IterationChoices == 0..1

FInit ==
    /\ pos_edges \in EdgeLists
    /\ neg_edges \in EdgeLists
    /\ Len(pos_edges) + Len(neg_edges) <= MaxEdges
    /\ num_nodes \in NumNodesChoices
    /\ reduction_dimensions \in DimensionChoices
    /\ reduction_iterations \in IterationChoices
    /\ pc = "line120"
    /\ N = 0
    /\ edge_index = <<>>
    /\ val = <<>>
    /\ pre_index = <<>>
    /\ pre_val = <<>>
    /\ A = <<>>
    /\ x_shape = <<>>
    /\ raised_at = 0
    /\ raised_kind = ""

\* an exception leaves the call from the given line
Raise(line, kind) ==
    /\ pc' = "raised"
    /\ raised_at' = line
    /\ raised_kind' = kind

\* lines 120-124; edge_index.max() of an empty tensor raises
ReadEdges ==
    /\ pc = "line120"
    /\ LET ei == CatEdges(pos_edges, neg_edges)
       IN  IF ei = <<>> /\ num_nodes = <<>>
           THEN /\ Raise(123, "RuntimeError")
                /\ UNCHANGED <<N, edge_index>>
           ELSE /\ edge_index' = ei
                /\ N' = InferN(ei, num_nodes)
                /\ pc' = "line126"
                /\ UNCHANGED <<raised_at, raised_kind>>
    /\ UNCHANGED <<pos_edges, neg_edges, num_nodes, reduction_dimensions,
                   reduction_iterations, val, pre_index, pre_val, A, x_shape>>

\* lines 126-128.  size(1) is the number of edges of a list; it exists for
\* an edge list given as an E x 2 array (the documented LongTensor, also
\* when E = 0)
BuildValues ==
    /\ pc = "line126"
    /\ val' = AnnotateValues(pos_edges, neg_edges)
    /\ pc' = "line130"
    /\ UNCHANGED <<pos_edges, neg_edges, num_nodes, reduction_dimensions,
                   reduction_iterations, N, edge_index, pre_index, pre_val,
                   A, x_shape, raised_at, raised_kind>>

\* lines 126-127 with an empty edge list given as the Python list []:
\* torch.tensor([]) has one dimension only and size(1) raises
BuildValuesEmptyList ==
    /\ pc = "line126"
    /\ pos_edges = <<>> \/ neg_edges = <<>>
    /\ Raise(IF pos_edges = <<>> THEN 126 ELSE 127, "IndexError")
    /\ UNCHANGED <<pos_edges, neg_edges, num_nodes, reduction_dimensions,
                   reduction_iterations, N, edge_index, val, pre_index,
                   pre_val, A, x_shape>>

\* lines 130-132
SymmetrizeStep ==
    /\ pc = "line130"
    /\ edge_index' = Symmetrize(edge_index)
    /\ val' = DoubleVal(val)
    /\ pc' = "line134"
    /\ UNCHANGED <<pos_edges, neg_edges, num_nodes, reduction_dimensions,
                   reduction_iterations, N, pre_index, pre_val, A, x_shape,
                   raised_at, raised_kind>>

\* line 134 with every index below N
CoalesceStep ==
    /\ pc = "line134"
    /\ InRange(edge_index, N)
    /\ pre_index' = edge_index
    /\ pre_val' = val
    /\ edge_index' = CoalesceIndex(edge_index, N, FALSE)
    /\ val' = CoalesceVal(edge_index, val, N)
    /\ pc' = "line135"
    /\ UNCHANGED <<pos_edges, neg_edges, num_nodes, reduction_dimensions,
                   reduction_iterations, N, A, x_shape, raised_at, raised_kind>>

\* line 134 with an index >= N: releases of torch_sparse that check the
\* sizes fail their assertion, the others merge by linear key
CoalesceOutOfRange ==
    /\ pc = "line134"
    /\ ~InRange(edge_index, N)
    /\ \/ /\ Raise(134, "AssertionError")
          /\ UNCHANGED <<edge_index, val, pre_index, pre_val>>
       \/ /\ \E useLast \in BOOLEAN :
                 edge_index' = CoalesceIndex(edge_index, N, useLast)
          /\ val' = CoalesceVal(edge_index, val, N)
          /\ pre_index' = edge_index
          /\ pre_val' = val
          /\ pc' = "line135"
          /\ UNCHANGED <<raised_at, raised_kind>>
    /\ UNCHANGED <<pos_edges, neg_edges, num_nodes, reduction_dimensions,
                   reduction_iterations, N, A, x_shape>>

\* line 135
SubtractStep ==
    /\ pc = "line135"
    /\ val' = SubtractOne(val)
    /\ pc' = "line137"
    /\ UNCHANGED <<pos_edges, neg_edges, num_nodes, reduction_dimensions,
                   reduction_iterations, N, edge_index, pre_index, pre_val,
                   A, x_shape, raised_at, raised_kind>>

\* lines 137-139; coo_matrix checks the indices against the shape
BuildMatrix ==
    /\ pc = "line137"
    /\ IF InRange(edge_index, N)
       THEN /\ A' = CooMatrix(val, edge_index, N)
            /\ pc' = "line140"
            /\ UNCHANGED <<raised_at, raised_kind>>
       ELSE /\ Raise(139, "ValueError")
            /\ UNCHANGED A
    /\ UNCHANGED <<pos_edges, neg_edges, num_nodes, reduction_dimensions,
                   reduction_iterations, N, edge_index, val, pre_index,
                   pre_val, x_shape>>

\* lines 140-145, the fit succeeds
FitAndReturn ==
    /\ pc = "line140"
    /\ x_shape' = SvdShape(A, reduction_dimensions)
    /\ pc' = "done"
    /\ UNCHANGED <<pos_edges, neg_edges, num_nodes, reduction_dimensions,
                   reduction_iterations, N, edge_index, val, pre_index,
                   pre_val, A, raised_at, raised_kind>>

\* line 143, the fit rejects the rank
FitRaises ==
    /\ pc = "line140"
    /\ SvdMayRaise(reduction_dimensions, A.shape[2])
    /\ Raise(143, "ValueError")
    /\ UNCHANGED <<pos_edges, neg_edges, num_nodes, reduction_dimensions,
                   reduction_iterations, N, edge_index, val, pre_index,
                   pre_val, A, x_shape>>

(* ---------------------------------------------------------------------- *)
(* Floating point, as far as the clamps of lines 180 and 207 depend on it  *)
(*                                                                         *)
(* Numbers are counted in grid units: ONE units make 1.0 and EPS units     *)
(* make the 1e-15 of the clamp bounds.  float64 resolves single units near *)
(* 1 (its spacing there, about 1.1e-16, is below 1e-15); float32 resolves  *)
(* only multiples of Ulp32 (its spacing near 1, about 6e-8, is far above   *)
(* 1e-15; the scale is compressed, the order EPS < Ulp32 / 2 is kept).     *)
(* ---------------------------------------------------------------------- *)

ONE == 8

EPS == 1

Ulp32 == 4

Ulp64 == 1

Ulp(dtype) == IF dtype = "float32" THEN Ulp32 ELSE Ulp64

\* round to the nearest multiple of ulp, ties to the even multiple
RoundTo(v, ulp) ==
    LET q == v \div ulp
        r == v % ulp
    IN  IF 2 * r < ulp THEN q * ulp
        ELSE IF 2 * r > ulp THEN (q + 1) * ulp
        ELSE IF q % 2 = 0 THEN q * ulp ELSE (q + 1) * ulp

\* a Python scalar converted to the dtype of the tensor it is applied to
ScalarTo(v, dtype) == RoundTo(v, Ulp(dtype))

Min2(a, b) == IF a <= b THEN a ELSE b
Max2(a, b) == IF a >= b THEN a ELSE b

\* line 180: x.clamp(-1 + 1e-15, 1 - 1e-15)
ArtanhClamp(x, dtype) ==
    Min2(Max2(x, ScalarTo(EPS - ONE, dtype)), ScalarTo(ONE - EPS, dtype))

\* line 207: x.clamp(min=1.0 + 1e-15)
ArcoshClamp(x, dtype) == Max2(x, ScalarTo(ONE + EPS, dtype))

(* ---------------------------------------------------------------------- *)
(* Forward values.  log, sqrt and the division are kept exact: a finite    *)
(* result is the record of the function and the point it is taken at,      *)
(* cast to the dtype of x.                                                 *)
(* ---------------------------------------------------------------------- *)

\* line 182-183: 0.5 * (log(1 + z) - log(1 - z)) in double, cast back
ArtanhValue(z, dtype) ==
    IF z = ONE THEN [kind |-> "inf", sign |-> 1]
    ELSE IF z = -ONE THEN [kind |-> "inf", sign |-> -1]
    ELSE IF z > ONE \/ z < -ONE THEN [kind |-> "nan"]
    ELSE [kind |-> "finite", fn |-> "artanh", at |-> z, dtype |-> dtype]

\* line 195-196: log(max(z + sqrt(1 + z^2), 1e-15)) in double, cast back
ArsinhValue(z, dtype) ==
    [kind |-> "finite", fn |-> "arsinh", at |-> z, dtype |-> dtype]

\* line 209-210: log(max(z + sqrt(z^2 - 1), 1e-15)) in double, cast back;
\* the square root of a negative number is NaN and stays NaN
ArcoshValue(z, dtype) ==
    IF z * z - ONE * ONE < 0 THEN [kind |-> "nan"]
    ELSE [kind |-> "finite", fn |-> "arcosh", at |-> z, dtype |-> dtype]

ArtanhSavedUnclamped(x, dtype) == x

\* lines 180-181: x is rebound to the clamped tensor, then saved
ArtanhSaved(x, dtype) == ArtanhClamp(x, dtype)

\* line 194: x is saved as it came
ArsinhSaved(x, dtype) == x

\* lines 207-208
ArcoshSaved(x, dtype) == ArcoshClamp(x, dtype)

\* Artanh.forward, lines 180-183
ArtanhForwardValue(x, dtype) == ArtanhValue(ArtanhClamp(x, dtype), dtype)

\* Arsinh.forward, lines 194-196
ArsinhForwardValue(x, dtype) == ArsinhValue(x, dtype)

\* Arcosh.forward, lines 207-211
ArcoshForwardValue(x, dtype) == ArcoshValue(ArcoshClamp(x, dtype), dtype)

\* line 188: grad_output / (1 - input ** 2), the quotient kept exact
\* (num / den, with the squares in squared grid units)
ArtanhGrad(g, input) ==
    [fn |-> "div", num |-> g, den |-> ONE * ONE - input * input]

\* line 201: grad_output / (1 + input ** 2) ** 0.5
ArsinhGrad(g, input) ==
    [fn |-> "div_sqrt", num |-> g, den |-> ONE * ONE + input * input]

\* line 216: grad_output / (input ** 2 - 1) ** 0.5
ArcoshGrad(g, input) ==
    [fn |-> "div_sqrt", num |-> g, den |-> input * input - ONE * ONE]

(* ---------------------------------------------------------------------- *)
(* The applications the model explores                                     *)
(* ---------------------------------------------------------------------- *)

Dtypes == {"float32", "float64"}

\* the numbers of -MaxX..MaxX the dtype can hold
Representable(dtype) == {v \in (-MaxX)..MaxX : RoundTo(v, Ulp(dtype)) = v}

GradChoices == {-1, 1, 2}

HInit ==
    /\ h_op \in {"Artanh", "Arsinh", "Arcosh"}
    /\ h_dtype \in Dtypes
    /\ h_x \in Representable(h_dtype)
    /\ grad_output \in GradChoices
    /\ h_pc = "apply"
    /\ saved = <<>>
    /\ h_out = <<>>
    /\ grad_input = <<>>

\* Artanh.apply(x): forward
ArtanhForward ==
    /\ h_pc = "apply" /\ h_op = "Artanh"
    /\ saved' = <<ArtanhSaved(h_x, h_dtype)>>
    /\ h_out' = ArtanhForwardValue(h_x, h_dtype)
    /\ h_pc' = "forwarded"
    /\ UNCHANGED <<h_op, h_dtype, h_x, grad_output, grad_input>>

ArsinhForward ==
    /\ h_pc = "apply" /\ h_op = "Arsinh"
    /\ saved' = <<ArsinhSaved(h_x, h_dtype)>>
    /\ h_out' = ArsinhForwardValue(h_x, h_dtype)
    /\ h_pc' = "forwarded"
    /\ UNCHANGED <<h_op, h_dtype, h_x, grad_output, grad_input>>

ArcoshForward ==
    /\ h_pc = "apply" /\ h_op = "Arcosh"
    /\ saved' = <<ArcoshSaved(h_x, h_dtype)>>
    /\ h_out' = ArcoshForwardValue(h_x, h_dtype)
    /\ h_pc' = "forwarded"
    /\ UNCHANGED <<h_op, h_dtype, h_x, grad_output, grad_input>>

\* the paired backward: input, = ctx.saved_tensors
ArtanhBackward ==
    /\ h_pc = "forwarded" /\ h_op = "Artanh"
    /\ grad_input' = ArtanhGrad(grad_output, saved[1])
    /\ h_pc' = "backwarded"
    /\ UNCHANGED <<h_op, h_dtype, h_x, saved, h_out, grad_output>>

ArsinhBackward ==
    /\ h_pc = "forwarded" /\ h_op = "Arsinh"
    /\ grad_input' = ArsinhGrad(grad_output, saved[1])
    /\ h_pc' = "backwarded"
    /\ UNCHANGED <<h_op, h_dtype, h_x, saved, h_out, grad_output>>

ArcoshBackward ==
    /\ h_pc = "forwarded" /\ h_op = "Arcosh"
    /\ grad_input' = ArcoshGrad(grad_output, saved[1])
    /\ h_pc' = "backwarded"
    /\ UNCHANGED <<h_op, h_dtype, h_x, saved, h_out, grad_output>>

(* ---------------------------------------------------------------------- *)
(* The two specifications                                                  *)
(* ---------------------------------------------------------------------- *)

\* no primitive is being applied
HIdle ==
    /\ h_op = "Artanh"
    /\ h_dtype = "float64"
    /\ h_x = 0
    /\ grad_output = 1
    /\ h_pc = "idle"
    /\ saved = <<>>
    /\ h_out = <<>>
    /\ grad_input = <<>>

\* no call of create_spectral_features is under way
FIdle ==
    /\ pos_edges = <<>>
    /\ neg_edges = <<>>
    /\ num_nodes = <<>>
    /\ reduction_dimensions = 1
    /\ reduction_iterations = 1
    /\ pc = "idle"
    /\ N = 0
    /\ edge_index = <<>>
    /\ val = <<>>
    /\ pre_index = <<>>
    /\ pre_val = <<>>
    /\ A = <<>>
    /\ x_shape = <<>>
    /\ raised_at = 0
    /\ raised_kind = ""

Init == FInit /\ HIdle

Next ==
    \/ ReadEdges /\ UNCHANGED hvars
    \/ BuildValues /\ UNCHANGED hvars
    \/ BuildValuesEmptyList /\ UNCHANGED hvars
    \/ SymmetrizeStep /\ UNCHANGED hvars
    \/ CoalesceStep /\ UNCHANGED hvars
    \/ CoalesceOutOfRange /\ UNCHANGED hvars
    \/ SubtractStep /\ UNCHANGED hvars
    \/ BuildMatrix /\ UNCHANGED hvars
    \/ FitAndReturn /\ UNCHANGED hvars
    \/ FitRaises /\ UNCHANGED hvars

\* one call of create_spectral_features
Spec == Init /\ [][Next]_vars

InitHyp == HInit /\ FIdle

NextHyp ==
    \/ ArtanhForward /\ UNCHANGED fvars
    \/ ArsinhForward /\ UNCHANGED fvars
    \/ ArcoshForward /\ UNCHANGED fvars
    \/ ArtanhBackward /\ UNCHANGED fvars
    \/ ArsinhBackward /\ UNCHANGED fvars
    \/ ArcoshBackward /\ UNCHANGED fvars

\* one forward/backward pair of an inverse hyperbolic primitive
SpecHyp == InitHyp /\ [][NextHyp]_vars

(* ---------------------------------------------------------------------- *)
(* What the inputs of the call say, read off the arguments alone           *)
(* ---------------------------------------------------------------------- *)

\* how many positive-edge contributions coordinate (i, j) receives: each
\* positive edge (a, b) contributes once to (a, b) and once to (b, a)
PosContrib(i, j) ==
    Cardinality({k \in DOMAIN pos_edges : pos_edges[k] = <<i, j>>})
      + Cardinality({k \in DOMAIN pos_edges : pos_edges[k] = <<j, i>>})

NegContrib(i, j) ==
    Cardinality({k \in DOMAIN neg_edges : neg_edges[k] = <<i, j>>})
      + Cardinality({k \in DOMAIN neg_edges : neg_edges[k] = <<j, i>>})

\* how many input edges cover the unordered pair {i, j}
PosCover(i, j) ==
    Cardinality({k \in DOMAIN pos_edges : pos_edges[k] \in {<<i, j>>, <<j, i>>}})

NegCover(i, j) ==
    Cardinality({k \in DOMAIN neg_edges : neg_edges[k] \in {<<i, j>>, <<j, i>>}})

InputIndices ==
    {pos_edges[k][1] : k \in DOMAIN pos_edges} \cup
    {pos_edges[k][2] : k \in DOMAIN pos_edges} \cup
    {neg_edges[k][1] : k \in DOMAIN neg_edges} \cup
    {neg_edges[k][2] : k \in DOMAIN neg_edges}

\* the node count the call is to use
ExpectedN ==
    IF num_nodes # <<>> THEN num_nodes[1]
    ELSE IF InputIndices = {} THEN 0
    ELSE 1 + SetMax(InputIndices)

InputInRange == \A i \in InputIndices : i < ExpectedN

NoEdgeInBoth ==
    \A k \in DOMAIN pos_edges : \A m \in DOMAIN neg_edges :
        pos_edges[k] # neg_edges[m]

\* the matrix of line 139 has been constructed
MatrixBuilt == A # <<>>

Coords == (0..(N - 1)) \X (0..(N - 1))

(* ---------------------------------------------------------------------- *)
(* C1: the coalesced signed adjacency matrix is symmetric: an entry is     *)
(* stored at (i, j) exactly when one is stored at (j, i), and              *)
(* A[i,j] = A[j,i] for all i, j, whatever duplicates, reversed edges,      *)
(* doubly signed edges or self-loops the edge lists hold.                  *)
(* ---------------------------------------------------------------------- *)
C1_Symmetric ==
    MatrixBuilt =>
        \A c \in Coords :
            /\ (StoredAt(A, c[1], c[2]) # {}) <=> (StoredAt(A, c[2], c[1]) # {})
            /\ Entry(A, c[1], c[2]) = Entry(A, c[2], c[1])

\* a one-directional positive edge next to a negative self-loop
C1_Witness ==
    /\ MatrixBuilt
    /\ pos_edges = << <<0, 1>> >>
    /\ neg_edges = << <<1, 1>> >>
    /\ Entry(A, 1, 0) = 1
    /\ Entry(A, 1, 1) = -1

(* ---------------------------------------------------------------------- *)
(* C2: when the edge (0,1) is in both positive_edges and negative_edges,   *)
(* the coalesced entry at (0,1) after the subtraction of 1 is 0.           *)
(* ---------------------------------------------------------------------- *)
C2_Cancellation ==
    ( /\ MatrixBuilt
      /\ \E k \in DOMAIN pos_edges : pos_edges[k] = <<0, 1>>
      /\ \E m \in DOMAIN neg_edges : neg_edges[m] = <<0, 1>> )
    => Entry(A, 0, 1) = 0

(* ---------------------------------------------------------------------- *)
(* C3: an unordered pair {i, j}, i # j, covered by exactly one input edge  *)
(* has A[i,j] = A[j,i] = +1 when that edge is positive and -1 when it is   *)
(* negative; a coordinate covered by no input edge has no stored entry.    *)
(* ---------------------------------------------------------------------- *)
C3_SignEncoding ==
    MatrixBuilt =>
        \A c \in Coords :
            LET i == c[1]
                j == c[2]
            IN  /\ (i # j /\ PosCover(i, j) = 1 /\ NegCover(i, j) = 0)
                      => (Entry(A, i, j) = 1 /\ Entry(A, j, i) = 1)
                /\ (i # j /\ PosCover(i, j) = 0 /\ NegCover(i, j) = 1)
                      => (Entry(A, i, j) = -1 /\ Entry(A, j, i) = -1)
                /\ (PosCover(i, j) = 0 /\ NegCover(i, j) = 0)
                      => (StoredAt(A, i, j) = {} /\ Entry(A, i, j) = 0)

\* one positive edge (0,1), no negative edges, N = 2
C3_Witness ==
    /\ MatrixBuilt
    /\ pos_edges = << <<0, 1>> >>
    /\ neg_edges = <<>>
    /\ N = 2
    /\ Entry(A, 0, 1) = 1 /\ Entry(A, 1, 0) = 1
    /\ Entry(A, 0, 0) = 0 /\ Entry(A, 1, 1) = 0

(* ---------------------------------------------------------------------- *)
(* C4: an edge index >= node_count, or a non-positive reduction_dimensions *)
(* or reduction_iterations, is rejected with a value error before the      *)
(* sparse matrix is constructed: the matrix is never built from such       *)
(* input and no feature matrix is returned for it.                         *)
(* ---------------------------------------------------------------------- *)
InvalidInput ==
    \/ ~InputInRange
    \/ reduction_dimensions <= 0
    \/ reduction_iterations <= 0

C4_ValidatedAtBoundary ==
    InvalidInput =>
        /\ ~MatrixBuilt
        /\ pc # "done"
        /\ pc = "raised" => raised_at < 139

(* ---------------------------------------------------------------------- *)
(* C5 as stated: with no edge in both lists, every stored value is in      *)
(* {+1, 0, -1}, duplicates, reversed duplicates and self-loops allowed.    *)
(* ---------------------------------------------------------------------- *)
C5_ValuesInRange_Original ==
    (MatrixBuilt /\ NoEdgeInBoth) =>
        \A k \in DOMAIN A.data : A.data[k] \in {-1, 0, 1}

\* no coordinate receives more than one positive-edge contribution
AtMostOnePositive == \A i \in Nodes : \A j \in Nodes : PosContrib(i, j) <= 1

(* ---------------------------------------------------------------------- *)
(* C5 as amended: with no edge in both lists and no coordinate receiving   *)
(* more than one positive-edge contribution (no positive edge duplicated,  *)
(* present in both directions, or a self-loop), every stored value is in   *)
(* {+1, 0, -1}; negative duplicates of any kind are allowed.               *)
(* ---------------------------------------------------------------------- *)
C5_ValuesInRange ==
    (MatrixBuilt /\ NoEdgeInBoth /\ AtMostOnePositive) =>
        \A k \in DOMAIN A.data : A.data[k] \in {-1, 0, 1}

\* a positive edge together with a negative self-loop
C5_Witness ==
    /\ MatrixBuilt
    /\ NoEdgeInBoth /\ AtMostOnePositive
    /\ pos_edges = << <<1, 0>> >>
    /\ neg_edges = << <<0, 0>> >>
    /\ Entry(A, 0, 0) = -1
    /\ Entry(A, 0, 1) = 1

\* line 134 has run: edge_index and val hold the coalesced list
Coalesced ==
    \/ pc \in {"line135", "line137", "line140", "done"}
    \/ pc = "raised" /\ raised_at > 134

\* line 135 has run as well
Subtracted ==
    \/ pc \in {"line137", "line140", "done"}
    \/ pc = "raised" /\ raised_at > 135

\* the values handed to coalesce that sit at coordinate c, added up
PreSumAt(c) ==
    SumSeq([k \in DOMAIN pre_val |-> IF pre_index[k] = c THEN pre_val[k] ELSE 0])

(* ---------------------------------------------------------------------- *)
(* C6: after symmetrization and coalesce the list holds at most one entry  *)
(* per coordinate, its coordinates are exactly those present before        *)
(* coalescing, and each value is the sum of the pre-coalesce values at     *)
(* its coordinate, from which 1 is then subtracted once per coordinate.    *)
(* Edge indices are below N, as the data model requires.                   *)
(* ---------------------------------------------------------------------- *)
C6_Coalesce ==
    (Coalesced /\ InRange(pre_index, N)) =>
        /\ Len(val) = Len(edge_index)
        /\ \A g \in DOMAIN edge_index : \A h \in DOMAIN edge_index :
               edge_index[g] = edge_index[h] => g = h
        /\ {edge_index[g] : g \in DOMAIN edge_index}
             = {pre_index[k] : k \in DOMAIN pre_index}
        /\ \A g \in DOMAIN edge_index :
               val[g] = PreSumAt(edge_index[g]) - (IF Subtracted THEN 1 ELSE 0)

\* (0,1) positive twice: four pre-coalesce entries collapse to two, each
\* holding 2 + 2 before the subtraction
C6_Witness ==
    /\ pc = "line135"
    /\ pos_edges = << <<0, 1>>, <<0, 1>> >>
    /\ Len(pre_index) = 4
    /\ edge_index = << <<0, 1>>, <<1, 0>> >>
    /\ val = <<4, 4>>

(* ---------------------------------------------------------------------- *)
(* C7: a returned matrix has shape (N, k) with k = reduction_dimensions    *)
(* whenever k < N, however many coordinates the edges cover, where N is    *)
(* num_nodes when supplied and 1 + the largest index of the edge lists     *)
(* when not; and with 1 <= k < N, every index below N and no edge list     *)
(* empty, the call does return.                                            *)
(* ---------------------------------------------------------------------- *)
C7_Shape ==
    /\ (pc = "done" /\ reduction_dimensions < ExpectedN)
          => x_shape = <<ExpectedN, reduction_dimensions>>
    /\ (pc = "raised" /\ 1 <= reduction_dimensions
                      /\ reduction_dimensions < ExpectedN)
          => (~InputInRange \/ pos_edges = <<>> \/ neg_edges = <<>>)

\* N inferred from a single self-loop at node 1, rank 1
C7_Witness ==
    /\ pc = "done"
    /\ num_nodes = <<>>
    /\ pos_edges = <<>>
    /\ neg_edges = << <<1, 1>> >>
    /\ reduction_dimensions = 1
    /\ x_shape = <<2, 1>>

(* ---------------------------------------------------------------------- *)
(* C10: the value stored at a coordinate (i, j) after coalescing and the   *)
(* subtraction of 1 is 2*p - 1 with p the number of positive-edge          *)
(* contributions to (i, j); so it is odd, at least -1, never 0, and -1     *)
(* exactly when only negative edges cover the coordinate.                  *)
(* ---------------------------------------------------------------------- *)
C10_TwoPMinusOne ==
    (Subtracted /\ InputInRange) =>
        \A g \in DOMAIN edge_index :
            LET p == PosContrib(edge_index[g][1], edge_index[g][2])
                n == NegContrib(edge_index[g][1], edge_index[g][2])
            IN  /\ p + n > 0
                /\ val[g] = 2 * p - 1
                /\ val[g] % 2 = 1
                /\ val[g] >= -1
                /\ val[g] # 0
                /\ (val[g] = -1) <=> (p = 0)

\* a positive self-loop contributes twice to its coordinate
C10_Witness ==
    /\ pc = "line137"
    /\ pos_edges = << <<1, 1>> >>
    /\ neg_edges = << <<0, 1>> >>
    /\ edge_index = << <<0, 1>>, <<1, 0>>, <<1, 1>> >>
    /\ val = <<-1, -1, 3>>

\* forward has returned
Forwarded == h_pc \in {"forwarded", "backwarded"}

\* x clamped to [-1 + 1e-15, 1 - 1e-15] as a real number
RealClampArtanh(x) == Min2(Max2(x, EPS - ONE), ONE - EPS)

\* max(x, 1 + 1e-15) as a real number
RealClampArcosh(x) == Max2(x, ONE + EPS)

(* ---------------------------------------------------------------------- *)
(* C8: for every input x, artanh(x) equals artanh applied to x clamped to  *)
(* [-1 + 1e-15, 1 - 1e-15] and arcosh(x) equals arcosh applied to          *)
(* max(x, 1 + 1e-15), and the value returned is neither NaN nor Inf.       *)
(* ---------------------------------------------------------------------- *)
C8_ForwardClamped ==
    /\ (Forwarded /\ h_op = "Artanh") =>
          /\ h_out = ArtanhForwardValue(
                         ScalarTo(RealClampArtanh(h_x), h_dtype), h_dtype)
          /\ h_out.kind = "finite"
    /\ (Forwarded /\ h_op = "Arcosh") =>
          /\ h_out = ArcoshForwardValue(
                         ScalarTo(RealClampArcosh(h_x), h_dtype), h_dtype)
          /\ h_out.kind = "finite"

(* ---------------------------------------------------------------------- *)
(* C9: the value forward saves and the paired backward reads is the        *)
(* clamped input for Artanh and Arcosh, so that backward returns           *)
(* grad_output / (1 - c^2) and grad_output / sqrt(c^2 - 1) with c the      *)
(* clamped input (inputs clamping to the same c get the same gradient);    *)
(* Arsinh saves x unchanged and returns grad_output / sqrt(1 + x^2).       *)
(* ---------------------------------------------------------------------- *)
C9_BackwardUsesClamped ==
    LET lo == ScalarTo(EPS - ONE, h_dtype)
        hi == ScalarTo(ONE - EPS, h_dtype)
        floor == ScalarTo(ONE + EPS, h_dtype)
        c == IF h_op = "Artanh"
                THEN (IF h_x < lo THEN lo ELSE IF h_x > hi THEN hi ELSE h_x)
             ELSE IF h_op = "Arcosh"
                THEN (IF h_x < floor THEN floor ELSE h_x)
             ELSE h_x
    IN  /\ Forwarded => saved = <<c>>
        /\ (h_pc = "backwarded" /\ h_op = "Artanh") =>
              grad_input = [fn |-> "div", num |-> grad_output,
                            den |-> ONE * ONE - c * c]
        /\ (h_pc = "backwarded" /\ h_op = "Arcosh") =>
              grad_input = [fn |-> "div_sqrt", num |-> grad_output,
                            den |-> c * c - ONE * ONE]
        /\ (h_pc = "backwarded" /\ h_op = "Arsinh") =>
              grad_input = [fn |-> "div_sqrt", num |-> grad_output,
                            den |-> ONE * ONE + h_x * h_x]

\* artanh of 1.5 in float64: 1 - 1e-15 is saved and the gradient is taken there
C9_Witness ==
    /\ h_pc = "backwarded"
    /\ h_op = "Artanh"
    /\ h_dtype = "float64"
    /\ h_x = ONE + ONE \div 2
    /\ saved = <<ONE - EPS>>
    /\ grad_input.den = ONE * ONE - (ONE - EPS) * (ONE - EPS)

====
